---- MODULE Spec2Model ----
(***************************************************************************)
(* The authentication/session core of the Spotify stats dashboard:         *)
(* SpotifyAuth (src/src/services/spotifyAuth.ts) over localStorage, and    *)
(* SpotifyApi.makeRequest (src/src/services/spotifyApi.ts).                *)
(*                                                                         *)
(* JavaScript runs every synchronous block to completion, so an action is  *)
(* one synchronous block: a whole synchronous method, or the part of an    *)
(* async method between two awaits.  Async calls (tasks) interleave at     *)
(* their awaits.                                                            *)
(***************************************************************************)
EXTENDS Integers, Sequences, FiniteSets, TLC

---------------------------------------------------------------------------
(* Bounds of the model *)

\* The number of authorization requests the two tabs send.
MaxHandshakes == 3

\* The longest string generateRandomString is asked for.
MaxVerifierLen == 2

\* The clock (epoch milliseconds) is observed up to this instant.
MaxNow == 1001
\* Largest expires_in (seconds) the token endpoint declares.
MaxLifetime == 1

\* Concurrent async calls (initiateAuth, handleCallback, makeRequest).
Tasks == {"t1", "t2"}

---------------------------------------------------------------------------
(* JavaScript values *)

\* localStorage.getItem of a key that is not stored; also a null return.
NULL == "<null>"
\* String(undefined): what setItem stores for a field the response lacks.
UNDEFINED == "undefined"
\* The number NaN (undefined * 1000, parseInt of a non-number).
\* Every real instant of the model is >= 0.
NaN == -1

JsMul(a, b) == IF a = NaN \/ b = NaN THEN NaN ELSE a * b
JsAdd(a, b) == IF a = NaN \/ b = NaN THEN NaN ELSE a + b
\* a > b on numbers: false when either side is NaN.
JsGt(a, b) == a # NaN /\ b # NaN /\ a > b

\* A decimal string is a sequence of one-character strings.
Digits == <<"0", "1", "2", "3", "4", "5", "6", "7", "8", "9">>
IsDigit(c) == \E i \in 1..10 : Digits[i] = c
DigitVal(c) == (CHOOSE i \in 1..10 : Digits[i] = c) - 1

RECURSIVE DecimalString(_)
DecimalString(n) ==
    IF n < 10 THEN <<Digits[n + 1]>>
    ELSE Append(DecimalString(n \div 10), Digits[(n % 10) + 1])

\* Number.prototype.toString()
NumberToString(n) == IF n = NaN THEN <<"N", "a", "N">> ELSE DecimalString(n)

RECURSIVE ParseDigits(_, _, _)
ParseDigits(s, i, acc) ==
    IF i > Len(s) \/ ~IsDigit(s[i]) THEN acc
    ELSE ParseDigits(s, i + 1, acc * 10 + DigitVal(s[i]))

\* parseInt(s): the leading decimal digits of s, NaN when there are none.
ParseInt(s) == IF Len(s) = 0 \/ ~IsDigit(s[1]) THEN NaN ELSE ParseDigits(s, 1, 0)

\* A space-separated string is a sequence of words and " " separators.
SP == " "
RECURSIVE JoinSpace(_)
JoinSpace(list) ==
    IF Len(list) = 0 THEN <<>>
    ELSE IF Len(list) = 1 THEN <<list[1]>>
    ELSE <<list[1], SP>> \o JoinSpace(Tail(list))

---------------------------------------------------------------------------
(* localStorage: a function from the stored keys to their string values *)

K_VERIFIER == "spotify_code_verifier"
K_ACCESS == "spotify_access_token"
K_REFRESH == "spotify_refresh_token"
K_EXPIRES == "spotify_expires_at"
K_SCOPES == "spotify_scopes"

TokenGroup == {K_ACCESS, K_REFRESH, K_EXPIRES, K_SCOPES}

Has(s, k) == k \in DOMAIN s
SetItem(s, k, v) == [x \in (DOMAIN s) \cup {k} |-> IF x = k THEN v ELSE s[x]]
RemoveItem(s, k) == [x \in (DOMAIN s) \ {k} |-> s[x]]
EmptyStore == [x \in {} |-> NULL]

---------------------------------------------------------------------------
(* SpotifyAuth: the pure part of each method *)

SCOPES == <<"user-read-private", "user-read-email", "user-read-recently-played",
            "user-top-read", "user-read-currently-playing", "streaming",
            "user-read-playback-state", "user-modify-playback-state">>

\* logout(): four removeItem calls.
LogoutKeepsRefresh(s) ==
    RemoveItem(RemoveItem(RemoveItem(s, K_ACCESS), K_EXPIRES), K_SCOPES)
LogoutClearsStorage(s) == EmptyStore
Logout(s) ==
    RemoveItem(RemoveItem(RemoveItem(RemoveItem(s, K_ACCESS), K_REFRESH),
                          K_EXPIRES), K_SCOPES)

\* getAccessToken, line 96: !token || !expiresAt.  No stored value of the
\* model is the empty string, so a value is falsy exactly when it is null.
MissingTokenOrExpiry(s) == ~Has(s, K_ACCESS) \/ ~Has(s, K_EXPIRES)

\* getAccessToken, line 98: Date.now() > parseInt(expiresAt).
ExpiredInverted(t, expiresAt) == ~JsGt(t, ParseInt(expiresAt))
NeverExpired(t, expiresAt) == FALSE
Expired(t, expiresAt) == JsGt(t, ParseInt(expiresAt))

\* getAccessToken() at clock t: the value returned and the store it leaves.
GetAccessToken(s, t) ==
    IF MissingTokenOrExpiry(s) THEN [val |-> NULL, store |-> s]
    ELSE IF Expired(t, s[K_EXPIRES]) THEN [val |-> NULL, store |-> Logout(s)]
    ELSE [val |-> s[K_ACCESS], store |-> s]

\* isAuthenticated(): getAccessToken() !== null.
IsAuthenticated(s, t) ==
    [val |-> GetAccessToken(s, t).val # NULL, store |-> GetAccessToken(s, t).store]

\* String.prototype.split(' ') on a stored scope string: the pieces between
\* the separators, each a string of its own.
RECURSIVE SplitSpace(_)
SplitSpace(str) ==
    IF \A i \in 1..Len(str) : str[i] # SP THEN <<str>>
    ELSE LET i == CHOOSE j \in 1..Len(str) :
                     str[j] = SP /\ \A k \in 1..(j - 1) : str[k] # SP
         IN <<SubSeq(str, 1, i - 1)>> \o SplitSpace(SubSeq(str, i + 1, Len(str)))

\* getCurrentScopes(), lines 117-120: scopes ? scopes.split(' ') : [].
GetCurrentScopes(s) ==
    IF Has(s, K_SCOPES) /\ Len(s[K_SCOPES]) > 0 THEN SplitSpace(s[K_SCOPES]) ELSE <<>>

\* Array.prototype.includes: some element is the string of the one scope name.
Includes(list, scope) == \E j \in 1..Len(list) : list[j] = <<scope>>

\* hasRequiredScopes(requiredScopes), lines 122-125.
HasRequiredScopesSome(s, requiredScopes) ==
    \E i \in 1..Len(requiredScopes) : Includes(GetCurrentScopes(s), requiredScopes[i])
HasRequiredScopes(s, requiredScopes) ==
    \A i \in 1..Len(requiredScopes) : Includes(GetCurrentScopes(s), requiredScopes[i])

\* hasStreamingScopes(), lines 127-129.
STREAMING_SCOPES == <<"streaming", "user-read-playback-state", "user-modify-playback-state">>
HasStreamingScopesUnrequested(s) ==
    HasRequiredScopes(s, STREAMING_SCOPES \o <<"app-remote-control">>)
HasStreamingScopes(s) == HasRequiredScopes(s, STREAMING_SCOPES)

\* needsReauth(), lines 138-141: isAuthenticated() && !hasStreamingScopes();
\* the second call reads the store the first one leaves.
NeedsReauthIgnoresSession(s, t) ==
    [val |-> ~HasStreamingScopes(IsAuthenticated(s, t).store),
     store |-> IsAuthenticated(s, t).store]
NeedsReauth(s, t) ==
    [val |-> IsAuthenticated(s, t).val /\ ~HasStreamingScopes(IsAuthenticated(s, t).store),
     store |-> IsAuthenticated(s, t).store]

\* handleCallback, line 55: localStorage.getItem('spotify_code_verifier');
\* 0 stands for null.
ReadVerifier(s) == IF Has(s, K_VERIFIER) THEN s[K_VERIFIER] ELSE 0

\* generateCodeChallenge, lines 15-21: the base64url text of the SHA-256
\* digest of the verifier.  Two verifiers have different challenges.
CodeChallengeOfNothing(codeVerifier) == <<"S256", 0>>
CodeChallenge(codeVerifier) == <<"S256", codeVerifier>>

\* handleCallback, line 56: !codeVerifier.
NeverMissingVerifier(s) == FALSE
MissingVerifier(s) == ~Has(s, K_VERIFIER)

\* A JSON body is a function from the fields it carries to their values.
Field(data, k) == IF k \in DOMAIN data THEN data[k] ELSE UNDEFINED

\* handleCallback, line 83: Date.now() + data.expires_in * 1000.
MS_PER_SECOND == 1000
ComputeExpiry(t, data) ==
    IF "expires_in" \in DOMAIN data
    THEN JsAdd(t, JsMul(data["expires_in"], MS_PER_SECOND))
    ELSE NaN

\* this.SCOPES.join(' ')
RequestedScope == JoinSpace(SCOPES)

\* handleCallback, line 84: data.scope || this.SCOPES.join(' ').
ScopeValue(data) ==
    IF "scope" \in DOMAIN data /\ Len(data["scope"]) > 0
    THEN data["scope"] ELSE RequestedScope

\* handleCallback, lines 81-84: the four setItem calls, in order.
TokenWrites(t, data) ==
    << <<K_ACCESS, Field(data, "access_token")>>,
       <<K_REFRESH, Field(data, "refresh_token")>>,
       <<K_EXPIRES, NumberToString(ComputeExpiry(t, data))>>,
       <<K_SCOPES, ScopeValue(data)>> >>

\* The store after the first n of the writes ws.
RECURSIVE ApplyWrites(_, _, _)
ApplyWrites(s, ws, n) ==
    IF n = 0 THEN s
    ELSE SetItem(ApplyWrites(s, ws, n - 1), ws[n][1], ws[n][2])

\* handleCallback, lines 81-87: all four writes, then the verifier removed.
StoreTokens(s, t, data) ==
    RemoveItem(ApplyWrites(s, TokenWrites(t, data), 4), K_VERIFIER)

\* handleCallback, line 77: data.error_description || 'Token exchange failed'.
MSG_EXCHANGE_FAILED == "Token exchange failed"
ExchangeError(data) ==
    IF "error_description" \in DOMAIN data THEN data["error_description"]
    ELSE MSG_EXCHANGE_FAILED

MSG_NO_VERIFIER == "No code verifier found"
\* response.json() rejecting on a body that is not JSON.
MSG_SYNTAX_ERROR == "SyntaxError: Unexpected token"
\* fetch rejecting: no response at all.
MSG_NETWORK_ERROR == "TypeError: Failed to fetch"
\* localStorage.setItem throwing when the origin's quota is used up.
MSG_QUOTA == "QuotaExceededError"

\* makeRequest error messages, lines 65-102.
MSG_NO_TOKEN == "No access token available"
MSG_AUTH_EXPIRED == "Authentication expired. Please log in again."
MSG_FORBIDDEN == "Access forbidden (403): "
MSG_FORBIDDEN_DEFAULT == "Your Spotify app may be in Development Mode. Check your app settings in the Spotify Developer Dashboard."
MSG_DEV_MODE == "Spotify app is in Development Mode. You need to add your account to the app's user list in the Spotify Developer Dashboard, or request a quota extension."
MSG_RATE_LIMIT == "Rate limit exceeded. Please wait a moment and try again."
MSG_API_ERROR == "Spotify API error"

\* errorData?.error?.message of a failure response: a sequence of words, the
\* empty sequence when the body carries none.
RECURSIVE WordsText(_)
WordsText(words) ==
    IF Len(words) = 0 THEN ""
    ELSE IF Len(words) = 1 THEN words[1]
    ELSE words[1] \o " " \o WordsText(Tail(words))

\* message.includes('Development mode'), line 92.
DEV_MODE_WORDS == <<"Development", "mode">>
IncludesWords(words, part) ==
    \E i \in 1..(Len(words) - Len(part) + 1) :
        SubSeq(words, i, i + Len(part) - 1) = part

\* makeRequest, lines 91-96: the error thrown on status 403.
ForbiddenError(message) ==
    IF IncludesWords(message, DEV_MODE_WORDS) THEN MSG_DEV_MODE
    ELSE MSG_FORBIDDEN \o (IF Len(message) > 0 THEN WordsText(message)
                           ELSE MSG_FORBIDDEN_DEFAULT)

\* makeRequest, lines 86-102: the error thrown for a response status
\* (0: no response) and message, and the store the handler leaves.
ApiFailureNoLogout(s, status, message) ==
    CASE status = 401 -> [err |-> MSG_AUTH_EXPIRED, store |-> s]
      [] status = 403 -> [err |-> ForbiddenError(message), store |-> s]
      [] status = 429 -> [err |-> MSG_RATE_LIMIT, store |-> s]
      [] OTHER -> [err |-> MSG_API_ERROR, store |-> s]
ApiFailureLogoutOnForbidden(s, status, message) ==
    CASE status = 401 -> [err |-> MSG_AUTH_EXPIRED, store |-> Logout(s)]
      [] status = 403 -> [err |-> ForbiddenError(message), store |-> Logout(s)]
      [] status = 429 -> [err |-> MSG_RATE_LIMIT, store |-> s]
      [] OTHER -> [err |-> MSG_API_ERROR, store |-> s]
ApiFailure(s, status, message) ==
    CASE status = 401 -> [err |-> MSG_AUTH_EXPIRED, store |-> Logout(s)]
      [] status = 403 -> [err |-> ForbiddenError(message), store |-> s]
      [] status = 429 -> [err |-> MSG_RATE_LIMIT, store |-> s]
      [] OTHER -> [err |-> MSG_API_ERROR, store |-> s]

---------------------------------------------------------------------------
(* The environment: the clock, the token endpoint, the REST service *)

\* The clock is sampled at the whole seconds, at the last millisecond before
\* each, and at the end of the observed time.
ClockSample(t) == (t % MS_PER_SECOND) \in {0, MS_PER_SECOND - 1} \/ t = MaxNow
SamplesAfter(t) ==
    {u \in {((t \div MS_PER_SECOND) + 1) * MS_PER_SECOND - 1,
            ((t \div MS_PER_SECOND) + 1) * MS_PER_SECOND,
            MaxNow} : u > t /\ u <= MaxNow}
NextSample(t) == CHOOSE u \in SamplesAfter(t) : \A w \in SamplesAfter(t) : u <= w

\* Scope strings a token response carries: a grant of fewer scopes than
\* requested, and the empty string (no scope granted).
NarrowScope == JoinSpace(<<"user-read-private", "user-read-email">>)
EmptyScope == <<>>

\* An optional field is a sequence of at most one value.
Lifetimes == {<<n>> : n \in 1..MaxLifetime}

\* The JSON body of a success response of the token endpoint: the tokens of
\* issuance i, expires_in e and scope sc (each optional).
SuccessBody(i, e, sc) ==
    [k \in {"access_token", "refresh_token"}
           \cup (IF Len(e) = 1 THEN {"expires_in"} ELSE {})
           \cup (IF Len(sc) = 1 THEN {"scope"} ELSE {}) |->
        CASE k = "access_token" -> "access-" \o i
          [] k = "refresh_token" -> "refresh-" \o i
          [] k = "expires_in" -> e[1]
          [] k = "scope" -> sc[1]]

\* The success responses of the model: one that omits scope, one that grants
\* fewer scopes than requested, one that omits expires_in, one whose scope is
\* the empty string.
SuccessBodies ==
    {SuccessBody("1", e, <<>>) : e \in Lifetimes}
    \cup {SuccessBody("2", e, <<NarrowScope>>) : e \in Lifetimes}
    \cup {SuccessBody("2", <<>>, <<NarrowScope>>)}
    \cup {SuccessBody("1", e, <<EmptyScope>>) : e \in Lifetimes}

\* The JSON body of an error response: error_description is optional.
ErrorBodies ==
    {[k \in {"error"} |-> "invalid_grant"],
     [k \in {"error", "error_description"} |->
        IF k = "error" THEN "invalid_grant" ELSE "Invalid authorization code"]}
NoBody == [k \in {} |-> NULL]

\* What fetch resolves with: the HTTP status, whether the body is JSON, and
\* the body.  A gateway answers 502 with a body that is not JSON.
TokenResponses ==
    {[status |-> 200, json |-> TRUE, data |-> d] : d \in SuccessBodies}
    \cup {[status |-> 400, json |-> TRUE, data |-> d] : d \in ErrorBodies}
    \cup {[status |-> st, json |-> FALSE, data |-> NoBody] : st \in {200, 502}}

\* response.ok
ResponseOk(r) == r.status \in 200..299

\* Failure statuses of the REST service; 0 stands for no response at all.
FailureStatuses == {0, 401, 403, 429, 500}

\* The messages a failure body carries: none, the one of an app in
\* development mode, another one.  Only the 403 branch reads the message to
\* choose what it does.
NoMessage == <<>>
DevModeMessage == <<"Development", "mode", "restriction">>
ScopeMessage == <<"Insufficient", "client", "scope">>
FailureMessages(status) ==
    IF status = 403 THEN {NoMessage, DevModeMessage, ScopeMessage} ELSE {NoMessage}

---------------------------------------------------------------------------
(* State *)

VARIABLES
    store,   \* localStorage of the origin
    now,     \* Date.now()
    pc,      \* per task: where its async call is suspended
    loc,     \* per task: the locals its call holds across the await
    sent,    \* the verifiers still held somewhere that a token request carried
    ret,     \* the call the last step ended, until its caller has resumed
    callback, \* the SpotifyCallback component of the page at /callback
    app,     \* the App component of the page at /
    player,  \* the SpotifyPlayerComponent of that page
    upgrade, \* history of the tab: Update Permissions "clicked", handshake "done"
    handshake, \* per tab: the authorization request the identity provider holds
    random   \* generateRandomString: the bytes drawn and the string returned

vars == <<store, now, pc, loc, sent, ret, callback, app, player, upgrade,
          handshake, random>>
\* The components, the identity provider and the random source; the calls of
\* SpotifyAuth and SpotifyApi leave them alone.
ui == <<callback, app, player, upgrade, handshake, random>>

NoLocals == [cv |-> 0, token |-> NULL]

\* The call a step ended: its name and task, the error thrown ("" if none),
\* the value returned, the response the step received (status 0: none), and
\* whether isAuthenticated() held when the step started.
NoResponse == [status |-> 0, json |-> FALSE, data |-> NoBody]
Outcome(op, t, err, val, resp) ==
    [op |-> op, task |-> t, err |-> err, val |-> val, resp |-> resp,
     wasAuth |-> IsAuthenticated(store, now).val]
SYNC == "sync"
Returned(op, t, val) == Outcome(op, t, "", val, NoResponse)
Threw(op, t, msg) == Outcome(op, t, msg, NULL, NoResponse)
\* No call has just ended.
NoOutcome == [op |-> "none", task |-> SYNC, err |-> "", val |-> NULL,
              resp |-> NoResponse, wasAuth |-> FALSE]
Idle == ret.op = "none"

\* generateRandomString(128): a verifier no one holds.  A verifier that is
\* neither stored nor held by a suspended call is forgotten, and its name is
\* used again.
HeldVerifiers ==
    (IF Has(store, K_VERIFIER) THEN {store[K_VERIFIER]} ELSE {})
    \cup {loc[t].cv : t \in Tasks}
    \cup {handshake[t].challenge[2] : t \in Tasks}
CachedVerifier ==
    IF Has(store, K_VERIFIER) THEN store[K_VERIFIER]
    ELSE CHOOSE v \in 1..(2 * Cardinality(Tasks) + 1) : v \notin HeldVerifiers
FreshVerifier == CHOOSE v \in 1..(2 * Cardinality(Tasks) + 1) : v \notin HeldVerifiers

\* The verifiers held after a step.
HeldAfter(store2, loc2) ==
    (IF Has(store2, K_VERIFIER) THEN {store2[K_VERIFIER]} ELSE {})
    \cup {loc2[t].cv : t \in Tasks}

\* A tab that has sent no authorization request: the provider holds no
\* code_challenge for it (the one of verifier 0: none), it has not navigated
\* (order 0), and its callback has not started.
NoHandshake == [challenge |-> CodeChallenge(0), order |-> 0, late |-> FALSE]

\* No call of generateRandomString is looked at.
NoRandom == [bytes |-> <<>>, out |-> <<>>]

\* SpotifyCallback before it is mounted: useState('loading'), useState(''),
\* no timer; code and error are the parameters of the URL it is loaded with.
CallbackUnmounted ==
    [status |-> "unmounted", error |-> "", redirect |-> "none", redirectAt |-> 0,
     code |-> <<>>, errorParam |-> <<>>]

\* App before its effect has run: useState(false).
AppUnmounted == [mounted |-> FALSE, isAuthenticated |-> FALSE]

\* SpotifyPlayerComponent before it is mounted: useState(null) for the player,
\* useState(false) for isReady and needsReauth, useState(null) for isPremium;
\* window.Spotify is not loaded and window.onSpotifyWebPlaybackSDKReady is
\* not set.
PlayerUnmounted ==
    [mounted |-> FALSE, needsReauth |-> FALSE, constructed |-> FALSE,
     sdk |-> FALSE, onReady |-> FALSE, isReady |-> FALSE, isPremium |-> "null"]

Init ==
    /\ store = EmptyStore
    /\ now = 0
    /\ pc = [t \in Tasks |-> "idle"]
    /\ loc = [t \in Tasks |-> NoLocals]
    /\ sent = {}
    /\ ret = NoOutcome
    /\ callback = CallbackUnmounted
    /\ app = AppUnmounted
    /\ player = PlayerUnmounted
    /\ upgrade = "none"
    /\ handshake = [t \in Tasks |-> NoHandshake]
    /\ random = NoRandom

\* The caller of the call that just ended resumes with its result, before
\* any other handler runs.
CallerResumes ==
    /\ ~Idle
    /\ ret' = NoOutcome
    /\ UNCHANGED <<store, now, pc, loc, sent>>

Tick ==
    /\ Idle
    /\ SamplesAfter(now) # {}
    /\ now' = NextSample(now)
    /\ UNCHANGED <<store, pc, loc, sent, ret>>

---------------------------------------------------------------------------
(* Synchronous calls *)

GetAccessTokenCall ==
    /\ Idle
    /\ store' = GetAccessToken(store, now).store
    /\ ret' = Returned("getAccessToken", SYNC, GetAccessToken(store, now).val)
    /\ UNCHANGED <<now, pc, loc, sent>>

IsAuthenticatedCall ==
    /\ Idle
    /\ store' = IsAuthenticated(store, now).store
    /\ ret' = Returned("isAuthenticated", SYNC,
                       IF IsAuthenticated(store, now).val THEN "true" ELSE "false")
    /\ UNCHANGED <<now, pc, loc, sent>>

\* App.handleLogout: SpotifyAuth.logout().
LogoutCall ==
    /\ Idle
    /\ store' = Logout(store)
    /\ ret' = Returned("logout", SYNC, NULL)
    /\ UNCHANGED <<now, pc, loc, sent>>

---------------------------------------------------------------------------
(* initiateAuth and forceReauth *)

\* generateRandomString(128), then the await of generateCodeChallenge.
GenerateVerifier(t, caller) ==
    /\ Idle
    /\ pc[t] = "idle"
    /\ loc' = [loc EXCEPT ![t] = [cv |-> FreshVerifier, token |-> NULL]]
    /\ pc' = [pc EXCEPT ![t] = IF caller = "forceReauth" THEN "reauth_digest"
                                ELSE "init_digest"]

InitiateAuthStart(t) ==
    /\ GenerateVerifier(t, "initiateAuth")
    /\ UNCHANGED <<store, now, sent, ret>>

\* forceReauth: logout(), then initiateAuth() up to its first await.
ForceReauthStart(t) ==
    /\ GenerateVerifier(t, "forceReauth")
    /\ store' = Logout(store)
    /\ UNCHANGED <<now, sent, ret>>

\* The call of task t that awaits the digest: initiateAuth() itself, or the
\* forceReauth() that awaits it.
InitiateCaller(t) == IF pc[t] = "reauth_digest" THEN "forceReauth" ELSE "initiateAuth"

InitiateAuthEnds(t, r) ==
    /\ Idle
    /\ pc[t] \in {"init_digest", "reauth_digest"}
    /\ pc' = [pc EXCEPT ![t] = "idle"]
    /\ loc' = [loc EXCEPT ![t] = NoLocals]
    /\ ret' = r
    /\ UNCHANGED now

\* The digest resolved: the verifier is stored and the browser navigates.
InitiateAuthStore(t) ==
    /\ InitiateAuthEnds(t, Returned(InitiateCaller(t), t, NULL))
    /\ store' = SetItem(store, K_VERIFIER, loc[t].cv)
    /\ sent' = sent \cap HeldAfter(store', loc')

\* setItem of the verifier throws: nothing is stored, no navigation.
InitiateAuthQuota(t) ==
    /\ InitiateAuthEnds(t, Threw(InitiateCaller(t), t, MSG_QUOTA))
    /\ UNCHANGED <<store, sent>>

---------------------------------------------------------------------------
(* handleCallback(code) *)

\* Lines 55-58: no verifier stored, the call throws before any request.
HandleCallbackNoVerifier(t) ==
    /\ Idle
    /\ pc[t] = "idle"
    /\ MissingVerifier(store)
    /\ ret' = Threw("handleCallback", t, MSG_NO_VERIFIER)
    /\ UNCHANGED <<store, now, pc, loc, sent>>

\* Lines 55-72: the verifier is read and the token request is sent.
HandleCallbackFetch(t) ==
    /\ Idle
    /\ pc[t] = "idle"
    /\ ~MissingVerifier(store)
    /\ pc' = [pc EXCEPT ![t] = "hc_fetch"]
    /\ loc' = [loc EXCEPT ![t] = [cv |-> ReadVerifier(store), token |-> NULL]]
    /\ sent' = sent \cup {ReadVerifier(store)}
    /\ UNCHANGED <<store, now, ret>>

\* The call ends with outcome r and leaves the store s2.
HandleCallbackEnds(t, r, s2) ==
    /\ Idle
    /\ pc[t] = "hc_fetch"
    /\ pc' = [pc EXCEPT ![t] = "idle"]
    /\ loc' = [loc EXCEPT ![t] = NoLocals]
    /\ ret' = r
    /\ store' = s2
    /\ sent' = sent \cap HeldAfter(store', loc')
    /\ UNCHANGED now

\* Line 60: fetch rejects (no response).
HandleCallbackNetworkError(t) ==
    /\ HandleCallbackEnds(t, Threw("handleCallback", t, MSG_NETWORK_ERROR), store)

\* Line 74: response.json() rejects, whatever response.ok is.
HandleCallbackUnparsable(t, r) ==
    /\ ~r.json
    /\ HandleCallbackEnds(t, Outcome("handleCallback", t, MSG_SYNTAX_ERROR, NULL, r),
                          store)

\* Lines 76-78: the body parsed and response.ok is false.
HandleCallbackRejected(t, r) ==
    /\ r.json /\ ~ResponseOk(r)
    /\ HandleCallbackEnds(t, Outcome("handleCallback", t, ExchangeError(r.data), NULL, r),
                          store)

\* Lines 80-89: the token group is stored, the verifier removed.
HandleCallbackStored(t, r) ==
    /\ r.json /\ ResponseOk(r)
    /\ HandleCallbackEnds(t, Outcome("handleCallback", t, "",
                                     Field(r.data, "access_token"), r),
                          StoreTokens(store, now, r.data))

\* Lines 81-84: the setItem after n writes throws (the origin's quota is used
\* up); the rest is not reached.  Writing over a stored key needs no room:
\* the write that throws is one that adds a key.
HandleCallbackQuota(t, r, n) ==
    /\ r.json /\ ResponseOk(r)
    /\ pc[t] = "hc_fetch"
    /\ ~Has(store, TokenWrites(now, r.data)[n + 1][1])
    /\ HandleCallbackEnds(t, Outcome("handleCallback", t, MSG_QUOTA, NULL, r),
                          ApplyWrites(store, TokenWrites(now, r.data), n))

\* The call resumes with the response r of the token endpoint.
HandleCallbackResponse(t, r) ==
    \/ HandleCallbackUnparsable(t, r)
    \/ HandleCallbackRejected(t, r)
    \/ HandleCallbackStored(t, r)
    \/ \E n \in 0..3 : HandleCallbackQuota(t, r, n)

---------------------------------------------------------------------------
(* SpotifyApi.makeRequest(url) *)

\* Lines 63-66: getAccessToken() gave null, the call throws.
MakeRequestNoToken(t) ==
    /\ Idle
    /\ pc[t] = "idle"
    /\ GetAccessToken(store, now).val = NULL
    /\ store' = GetAccessToken(store, now).store
    /\ ret' = Threw("makeRequest", t, MSG_NO_TOKEN)
    /\ UNCHANGED <<now, pc, loc, sent>>

\* Lines 63-73: the request is sent with the token just read.
MakeRequestSend(t) ==
    /\ Idle
    /\ pc[t] = "idle"
    /\ GetAccessToken(store, now).val # NULL
    /\ store' = GetAccessToken(store, now).store
    /\ pc' = [pc EXCEPT ![t] = "req_wait"]
    /\ loc' = [loc EXCEPT ![t] = [cv |-> 0, token |-> GetAccessToken(store, now).val]]
    /\ UNCHANGED <<now, sent, ret>>

ApiResponse(status) == [status |-> status, json |-> TRUE, data |-> NoBody]
ApiErrorResponse(status, message) ==
    [status |-> status, json |-> TRUE, data |-> [m \in {"message"} |-> message]]

MakeRequestEnds(t, r) ==
    /\ Idle
    /\ pc[t] = "req_wait"
    /\ pc' = [pc EXCEPT ![t] = "idle"]
    /\ loc' = [loc EXCEPT ![t] = NoLocals]
    /\ ret' = r
    /\ UNCHANGED <<now, sent>>

\* Line 74: response.data is returned.
MakeRequestOk(t) ==
    /\ MakeRequestEnds(t, Outcome("makeRequest", t, "", "data", ApiResponse(200)))
    /\ UNCHANGED store

\* Lines 75-106: the request failed with the given status.
MakeRequestFails(t, status) ==
    \E message \in FailureMessages(status) :
        /\ MakeRequestEnds(t, Outcome("makeRequest", t,
                                      ApiFailure(store, status, message).err,
                                      NULL, ApiErrorResponse(status, message)))
        /\ store' = ApiFailure(store, status, message).store

---------------------------------------------------------------------------

\* The calls of the two services, from any caller; the components are not
\* part of this specification.
Next ==
    \/ CallerResumes /\ UNCHANGED ui
    \/ Tick /\ UNCHANGED ui
    \/ GetAccessTokenCall /\ UNCHANGED ui
    \/ IsAuthenticatedCall /\ UNCHANGED ui
    \/ LogoutCall /\ UNCHANGED ui
    \/ \E t \in Tasks : InitiateAuthStart(t) /\ UNCHANGED ui
    \/ \E t \in Tasks : ForceReauthStart(t) /\ UNCHANGED ui
    \/ \E t \in Tasks : InitiateAuthStore(t) /\ UNCHANGED ui
    \/ \E t \in Tasks : InitiateAuthQuota(t) /\ UNCHANGED ui
    \/ \E t \in Tasks : HandleCallbackNoVerifier(t) /\ UNCHANGED ui
    \/ \E t \in Tasks : HandleCallbackFetch(t) /\ UNCHANGED ui
    \/ \E t \in Tasks : HandleCallbackNetworkError(t) /\ UNCHANGED ui
    \/ \E t \in Tasks, r \in TokenResponses : HandleCallbackUnparsable(t, r) /\ UNCHANGED ui
    \/ \E t \in Tasks, r \in TokenResponses : HandleCallbackRejected(t, r) /\ UNCHANGED ui
    \/ \E t \in Tasks, r \in TokenResponses : HandleCallbackStored(t, r) /\ UNCHANGED ui
    \/ \E t \in Tasks, r \in TokenResponses, n \in 0..3 :
          HandleCallbackQuota(t, r, n) /\ UNCHANGED ui
    \/ \E t \in Tasks : MakeRequestNoToken(t) /\ UNCHANGED ui
    \/ \E t \in Tasks : MakeRequestSend(t) /\ UNCHANGED ui
    \/ \E t \in Tasks : MakeRequestOk(t) /\ UNCHANGED ui
    \/ \E t \in Tasks, status \in FailureStatuses : MakeRequestFails(t, status) /\ UNCHANGED ui

Spec == Init /\ [][Next]_vars

---------------------------------------------------------------------------
(* SpotifyCallback: the page at /callback *)

\* The task that runs the calls of the page.
PAGE_TASK == "t1"

MSG_NO_CODE == "No authorization code received"
REDIRECT_DELAY_MS == 2000

\* URLSearchParams.get('code') and .get('error'): a value, or null (<<>>).
CodeParams == {<<>>, <<"code-1">>}
ErrorParams == {<<>>, <<"access_denied">>}

\* Lines 15-21: the message of the error thrown before handleCallback is
\* called, "" when none is thrown.
CallbackEarlyErrorCodeFirst(code, errorParam) ==
    IF Len(code) = 1 THEN ""
    ELSE IF Len(errorParam) = 1 THEN errorParam[1] ELSE MSG_NO_CODE
CallbackEarlyError(code, errorParam) ==
    IF Len(errorParam) = 1 THEN errorParam[1]
    ELSE IF Len(code) = 0 THEN MSG_NO_CODE ELSE ""

\* Lines 30-33, the catch block: setError(err.message); setStatus('error').
CallbackFailed(c, message) == [c EXCEPT !.status = "error", !.error = message]

\* Lines 24-29: setStatus('success'); setTimeout(..., 2000).
CallbackSucceeded(c, t) ==
    [c EXCEPT !.status = "success", !.redirect = "scheduled",
              !.redirectAt = t + REDIRECT_DELAY_MS]

\* Lines 23-33: what the component does when handleCallback has ended with
\* outcome r at time t.
CallbackOutcomeIgnoresError(c, r, t) == CallbackSucceeded(c, t)
CallbackOutcome(c, r, t) ==
    IF r.err = "" THEN CallbackSucceeded(c, t) ELSE CallbackFailed(c, r.err)

\* The page is loaded with the given parameters and the effect runs, lines
\* 8-21: an error is thrown before handleCallback is called.
CallbackMountFails(code, errorParam) ==
    /\ Idle
    /\ callback.status = "unmounted"
    /\ pc[PAGE_TASK] = "idle"
    /\ CallbackEarlyError(code, errorParam) # ""
    /\ callback' = CallbackFailed([callback EXCEPT !.code = code,
                                                   !.errorParam = errorParam],
                                  CallbackEarlyError(code, errorParam))
    /\ UNCHANGED <<store, now, pc, loc, sent, ret, app, player, upgrade, handshake, random>>

\* Lines 8-23: the effect calls SpotifyAuth.handleCallback(code), which runs
\* up to its throw or its first await.
CallbackMountCalls(code, errorParam) ==
    /\ callback.status = "unmounted"
    /\ CallbackEarlyError(code, errorParam) = ""
    /\ callback' = [callback EXCEPT !.status = "loading", !.code = code,
                                    !.errorParam = errorParam]
    /\ \/ HandleCallbackNoVerifier(PAGE_TASK)
       \/ HandleCallbackFetch(PAGE_TASK)
    /\ UNCHANGED <<app, player, upgrade, handshake, random>>

\* The await of line 23 resumes with the outcome of handleCallback.
CallbackResumes ==
    /\ ret.op = "handleCallback" /\ ret.task = PAGE_TASK
    /\ callback.status = "loading"
    /\ callback' = CallbackOutcome(callback, ret, now)
    /\ ret' = NoOutcome
    /\ UNCHANGED <<store, now, pc, loc, sent, app, player, upgrade, handshake, random>>

\* Time passes while the timer of line 27 is pending: to the last millisecond
\* before it is due, then to the time it is due.
TimerTick ==
    /\ Idle
    /\ callback.redirect = "scheduled"
    /\ now < callback.redirectAt
    /\ now' = IF now < callback.redirectAt - 1 THEN callback.redirectAt - 1
              ELSE callback.redirectAt
    /\ UNCHANGED <<store, pc, loc, sent, ret, callback, app, player, upgrade, handshake, random>>

\* setTimeout runs its function no earlier than the delay.
TimerDue(c, t) == t >= c.redirectAt

\* Line 28: window.location.href = '/'.
RedirectFires ==
    /\ Idle
    /\ callback.redirect = "scheduled"
    /\ TimerDue(callback, now)
    /\ callback' = [callback EXCEPT !.redirect = "fired"]
    /\ UNCHANGED <<store, now, pc, loc, sent, ret, app, player, upgrade, handshake, random>>

\* One tab: the login that leads to the provider, then the page at /callback.
NextCallback ==
    \/ CallerResumes /\ ret.op # "handleCallback" /\ UNCHANGED ui
    \/ Tick /\ callback.redirect = "none" /\ UNCHANGED ui
    \/ InitiateAuthStart(PAGE_TASK) /\ callback.status = "unmounted" /\ UNCHANGED ui
    \/ InitiateAuthStore(PAGE_TASK) /\ UNCHANGED ui
    \/ InitiateAuthQuota(PAGE_TASK) /\ UNCHANGED ui
    \/ \E code \in CodeParams, errorParam \in ErrorParams :
          CallbackMountFails(code, errorParam)
    \/ \E code \in CodeParams, errorParam \in ErrorParams :
          CallbackMountCalls(code, errorParam)
    \/ HandleCallbackNetworkError(PAGE_TASK) /\ UNCHANGED ui
    \/ \E r \in TokenResponses : HandleCallbackUnparsable(PAGE_TASK, r) /\ UNCHANGED ui
    \/ \E r \in TokenResponses : HandleCallbackRejected(PAGE_TASK, r) /\ UNCHANGED ui
    \/ \E r \in TokenResponses : HandleCallbackStored(PAGE_TASK, r) /\ UNCHANGED ui
    \/ \E r \in TokenResponses, n \in 0..3 :
          HandleCallbackQuota(PAGE_TASK, r, n) /\ UNCHANGED ui
    \/ CallbackResumes
    \/ TimerTick
    \/ RedirectFires

SpecCallback == Init /\ [][NextCallback]_vars

---------------------------------------------------------------------------
(* App and SpotifyPlayerComponent: the page at / *)

\* The task of another tab of the origin, which shares the store.
OTHER_TASK == "t2"

\* The arrays hasRequiredScopes is called with.
RequiredSets ==
    {<<>>, <<"user-read-private">>, <<"user-read-private", "streaming">>,
     <<"streaming">>, <<"user-read">>, STREAMING_SCOPES}

BoolString(b) == IF b THEN "true" ELSE "false"

\* hasRequiredScopes(requiredScopes), called with one of the arrays.
HasRequiredScopesCall(requiredScopes) ==
    /\ Idle
    /\ ret' = [arg |-> requiredScopes]
              @@ Returned("hasRequiredScopes", SYNC,
                          BoolString(HasRequiredScopes(store, requiredScopes)))
    /\ UNCHANGED <<store, now, pc, loc, sent>>

\* needsReauth(), as App calls it when it renders (App.tsx line 182).
NeedsReauthCall ==
    /\ Idle
    /\ store' = NeedsReauth(store, now).store
    /\ ret' = Returned("needsReauth", SYNC, BoolString(NeedsReauth(store, now).val))
    /\ UNCHANGED <<now, pc, loc, sent>>

\* One tab that logs in, asks for its scopes, calls the API and logs out.
NextScopes ==
    \/ CallerResumes /\ UNCHANGED ui
    \/ Tick /\ UNCHANGED ui
    \/ \E requiredScopes \in RequiredSets :
          HasRequiredScopesCall(requiredScopes) /\ UNCHANGED ui
    \/ NeedsReauthCall /\ UNCHANGED ui
    \/ LogoutCall /\ UNCHANGED ui
    \/ InitiateAuthStart(PAGE_TASK) /\ UNCHANGED ui
    \/ InitiateAuthStore(PAGE_TASK) /\ UNCHANGED ui
    \/ HandleCallbackFetch(PAGE_TASK) /\ UNCHANGED ui
    \/ \E r \in TokenResponses : HandleCallbackStored(PAGE_TASK, r) /\ UNCHANGED ui
    \/ \E r \in TokenResponses : HandleCallbackRejected(PAGE_TASK, r) /\ UNCHANGED ui
    \/ MakeRequestSend(PAGE_TASK) /\ UNCHANGED ui
    \/ MakeRequestFails(PAGE_TASK, 401) /\ UNCHANGED ui

SpecScopes == Init /\ [][NextScopes]_vars

\* App's effect, lines 34-36: setIsAuthenticated(SpotifyAuth.isAuthenticated()).
AppMount ==
    /\ Idle
    /\ ~app.mounted
    /\ pc[PAGE_TASK] = "idle"
    /\ app' = [mounted |-> TRUE, isAuthenticated |-> IsAuthenticated(store, now).val]
    /\ store' = IsAuthenticated(store, now).store
    /\ UNCHANGED <<now, pc, loc, sent, ret, callback, player, upgrade, handshake, random>>

\* handleLogin, lines 38-44: the Login button is shown while not authenticated.
HandleLogin ==
    /\ app.mounted /\ ~app.isAuthenticated
    /\ InitiateAuthStart(PAGE_TASK)
    /\ UNCHANGED ui

\* initiateAuth sets window.location.href: the page is unloaded, and with it
\* the components, window.Spotify and window.onSpotifyWebPlaybackSDKReady.
PageNavigates ==
    /\ InitiateAuthStore(PAGE_TASK)
    /\ app' = AppUnmounted
    /\ player' = PlayerUnmounted
    /\ UNCHANGED <<callback, upgrade, handshake, random>>

\* handleLogout, lines 46-52: the player is no longer rendered; its player
\* object, window.Spotify and the registered callback stay.
HandleLogout ==
    /\ app.mounted /\ app.isAuthenticated
    /\ LogoutCall
    /\ app' = [app EXCEPT !.isAuthenticated = FALSE]
    /\ player' = [player EXCEPT !.mounted = FALSE, !.needsReauth = FALSE,
                                !.isReady = FALSE, !.isPremium = "null"]
    /\ UNCHANGED <<callback, upgrade, handshake, random>>

\* setNeedsReauth(true): a state update of an unmounted component is dropped.
SetNeedsReauth(p) == IF p.mounted THEN [p EXCEPT !.needsReauth = TRUE] ELSE p

\* initializePlayer, SpotifyPlayer.tsx lines 32-100, with window.Spotify
\* loaded: the component it leaves and the store getAccessToken() leaves.
InitializePlayerNoScopeCheck(p, s, t) ==
    IF GetAccessToken(s, t).val = NULL
    THEN [player |-> p, store |-> GetAccessToken(s, t).store]
    ELSE [player |-> [p EXCEPT !.constructed = TRUE],
          store |-> GetAccessToken(s, t).store]
InitializePlayer(p, s, t) ==
    IF GetAccessToken(s, t).val = NULL
    THEN [player |-> p, store |-> GetAccessToken(s, t).store]
    ELSE IF ~HasStreamingScopes(GetAccessToken(s, t).store)
    THEN [player |-> SetNeedsReauth(p), store |-> GetAccessToken(s, t).store]
    ELSE [player |-> [p EXCEPT !.constructed = TRUE],
          store |-> GetAccessToken(s, t).store]

\* The effect of the component, lines 25-107.
PlayerEffect(p, s, t) ==
    IF NeedsReauth(s, t).val
    THEN [player |-> SetNeedsReauth(p), store |-> NeedsReauth(s, t).store]
    ELSE IF p.sdk THEN InitializePlayer(p, NeedsReauth(s, t).store, t)
    ELSE [player |-> [p EXCEPT !.onReady = TRUE], store |-> NeedsReauth(s, t).store]

\* App renders the component while its isAuthenticated is true (lines
\* 172-177); the effect runs once.
PlayerMount ==
    /\ Idle
    /\ app.mounted /\ app.isAuthenticated
    /\ ~player.mounted
    /\ player' = PlayerEffect([player EXCEPT !.mounted = TRUE], store, now).player
    /\ store' = PlayerEffect([player EXCEPT !.mounted = TRUE], store, now).store
    /\ UNCHANGED <<now, pc, loc, sent, ret, callback, app, upgrade, handshake, random>>

\* The SDK script has loaded: window.Spotify is set and the SDK calls
\* window.onSpotifyWebPlaybackSDKReady if the component has set it.
SdkReady ==
    /\ Idle
    /\ app.mounted
    /\ ~player.sdk
    /\ IF player.onReady
       THEN /\ player' = InitializePlayer([player EXCEPT !.sdk = TRUE], store, now).player
            /\ store' = InitializePlayer([player EXCEPT !.sdk = TRUE], store, now).store
       ELSE /\ player' = [player EXCEPT !.sdk = TRUE]
            /\ store' = store
    /\ UNCHANGED <<now, pc, loc, sent, ret, callback, app, upgrade, handshake, random>>

\* The Update Permissions button, lines 187-217: SpotifyAuth.forceReauth().
UpdatePermissions ==
    /\ player.mounted /\ player.needsReauth
    /\ ForceReauthStart(PAGE_TASK)
    /\ upgrade' = "clicked"
    /\ UNCHANGED <<callback, app, player, handshake, random>>

\* A grant of the streaming scope without the two playback-state scopes.
StreamOnlyScope == JoinSpace(<<"user-read-private", "streaming">>)

\* The token responses of the page's model: scope omitted (the requested
\* list is stored), a narrow grant, and a grant of streaming alone.
PlayerResponses ==
    {[status |-> 200, json |-> TRUE, data |-> SuccessBody("1", e, <<>>)] :
        e \in Lifetimes}
    \cup {[status |-> 200, json |-> TRUE, data |-> SuccessBody("2", e, <<sc>>)] :
        e \in Lifetimes, sc \in {NarrowScope, StreamOnlyScope}}

\* The handshake of the tab stored a session: the one forceReauth asked for,
\* if Update Permissions was clicked before.
PageHandshakeStored(r) ==
    /\ HandleCallbackStored(PAGE_TASK, r)
    /\ upgrade' = IF upgrade = "clicked" THEN "done" ELSE upgrade
    /\ UNCHANGED <<callback, app, player, handshake, random>>

\* The tab is at /callback: handleCallback runs there, not on the page at /.
AtCallbackPage == ~app.mounted

\* One tab with the page at /, its login, and the handshake of another tab.
NextPlayer ==
    \/ CallerResumes /\ UNCHANGED ui
    \/ Tick /\ UNCHANGED ui
    \/ NeedsReauthCall /\ UNCHANGED ui
    \/ AppMount
    \/ HandleLogin
    \/ PageNavigates
    \/ HandleLogout
    \/ PlayerMount
    \/ SdkReady
    \/ UpdatePermissions
    \/ AtCallbackPage /\ HandleCallbackFetch(PAGE_TASK) /\ UNCHANGED ui
    \/ \E r \in PlayerResponses : PageHandshakeStored(r)
    \/ InitiateAuthStart(OTHER_TASK) /\ UNCHANGED ui
    \/ InitiateAuthStore(OTHER_TASK) /\ UNCHANGED ui
    \/ HandleCallbackFetch(OTHER_TASK) /\ UNCHANGED ui
    \/ \E r \in PlayerResponses : HandleCallbackStored(OTHER_TASK, r) /\ UNCHANGED ui

SpecPlayer == Init /\ [][NextPlayer]_vars

---------------------------------------------------------------------------
(* SpotifyPlayerComponent: the player's events and playTrack *)

\* The 'ready' listener, lines 58-63.
PlayerReady ==
    /\ Idle
    /\ player.mounted /\ player.constructed
    /\ ~player.isReady
    /\ player' = [player EXCEPT !.isReady = TRUE, !.isPremium = "true"]
    /\ UNCHANGED <<store, now, pc, loc, sent, ret, callback, app, upgrade,
                   handshake, random>>

\* The 'authentication_error' listener, lines 88-91: the player could not
\* authenticate with the token it was given.
AuthenticationError ==
    /\ Idle
    /\ player.mounted /\ player.constructed
    /\ player.isPremium # "false"
    /\ player' = [player EXCEPT !.isPremium = "false"]
    /\ UNCHANGED <<store, now, pc, loc, sent, ret, callback, app, upgrade,
                   handshake, random>>

\* getOAuthToken, lines 49-54: the player asks for a token; cb is called
\* with the value returned here unless it is null.
GetOAuthToken ==
    /\ Idle
    /\ player.constructed
    /\ store' = GetAccessToken(store, now).store
    /\ ret' = Returned("getOAuthToken", SYNC, GetAccessToken(store, now).val)
    /\ UNCHANGED <<now, pc, loc, sent>>
    /\ UNCHANGED ui

\* The Play button is rendered by the last branch of the component (lines
\* 186-313); playTrack returns at once unless deviceId and isReady are set.
CanPlay ==
    /\ player.mounted /\ player.isReady
    /\ ~player.needsReauth /\ player.isPremium # "false"

\* playTrack, lines 145-146: getAccessToken() gave null, no request.
PlayTrackNoToken ==
    /\ Idle
    /\ CanPlay
    /\ pc[PAGE_TASK] = "idle"
    /\ GetAccessToken(store, now).val = NULL
    /\ store' = GetAccessToken(store, now).store
    /\ ret' = Returned("playTrack", PAGE_TASK, NULL)
    /\ UNCHANGED <<now, pc, loc, sent>>
    /\ UNCHANGED ui

\* playTrack, lines 145-157: the play request is sent with the token read.
PlayTrackSend ==
    /\ Idle
    /\ CanPlay
    /\ pc[PAGE_TASK] = "idle"
    /\ GetAccessToken(store, now).val # NULL
    /\ store' = GetAccessToken(store, now).store
    /\ pc' = [pc EXCEPT ![PAGE_TASK] = "play_wait"]
    /\ loc' = [loc EXCEPT ![PAGE_TASK] =
                  [cv |-> 0, token |-> GetAccessToken(store, now).val]]
    /\ UNCHANGED <<now, sent, ret>>
    /\ UNCHANGED ui

\* The answers to the play request that playTrack tells apart.
PlayStatuses == {204, 401, 403}

\* playTrack, lines 159-169: status 401 sets needsReauth; any other failure
\* is logged.
PlayTrackResponse(status) ==
    /\ Idle
    /\ pc[PAGE_TASK] = "play_wait"
    /\ pc' = [pc EXCEPT ![PAGE_TASK] = "idle"]
    /\ loc' = [loc EXCEPT ![PAGE_TASK] = NoLocals]
    /\ ret' = Outcome("playTrack", PAGE_TASK, "", NULL, ApiResponse(status))
    /\ player' = IF status = 401 THEN SetNeedsReauth(player) ELSE player
    /\ UNCHANGED <<store, now, sent, callback, app, upgrade, handshake, random>>

\* The page at / with a constructed player, and the handshake of another tab.
NextPlayback ==
    \/ CallerResumes /\ UNCHANGED ui
    \/ Tick /\ UNCHANGED ui
    \/ AppMount
    \/ HandleLogin
    \/ PageNavigates
    \/ PlayerMount
    \/ SdkReady
    \/ AtCallbackPage /\ HandleCallbackFetch(PAGE_TASK) /\ UNCHANGED ui
    \/ \E r \in PlayerResponses : PageHandshakeStored(r)
    \/ InitiateAuthStart(OTHER_TASK) /\ UNCHANGED ui
    \/ InitiateAuthStore(OTHER_TASK) /\ UNCHANGED ui
    \/ HandleCallbackFetch(OTHER_TASK) /\ UNCHANGED ui
    \/ \E r \in PlayerResponses : HandleCallbackStored(OTHER_TASK, r) /\ UNCHANGED ui
    \/ PlayerReady
    \/ AuthenticationError
    \/ GetOAuthToken
    \/ PlayTrackNoToken
    \/ PlayTrackSend
    \/ \E status \in PlayStatuses : PlayTrackResponse(status)

SpecPlayback == Init /\ [][NextPlayback]_vars

---------------------------------------------------------------------------
(* Two tabs and the identity provider *)

\* The position of the latest authorization request.
LastOrder ==
    CHOOSE n \in {handshake[t].order : t \in Tasks} :
        \A t \in Tasks : handshake[t].order <= n

\* Another tab has navigated to the provider after tab t did.
Superseded(t) == \E u \in Tasks \ {t} : handshake[u].order > handshake[t].order

\* A tab calls initiateAuth() (App.handleLogin).
TabInitiates(t) ==
    /\ LastOrder < MaxHandshakes
    /\ InitiateAuthStart(t)
    /\ UNCHANGED ui

\* Lines 40-51: the verifier is stored and the tab navigates; the request
\* carries the code_challenge computed at line 37, which the provider keeps
\* with the authorization code it will hand to this tab.
TabNavigates(t) ==
    /\ InitiateAuthStore(t)
    /\ handshake' = [handshake EXCEPT ![t] =
                        [challenge |-> CodeChallenge(loc[t].cv),
                         order |-> LastOrder + 1, late |-> FALSE]]
    /\ UNCHANGED <<callback, app, player, upgrade, random>>

TabInitiateFails(t) ==
    /\ InitiateAuthQuota(t)
    /\ UNCHANGED ui

\* The provider has redirected the tab to /callback with the tab's code:
\* handleCallback(code) starts.  late records whether another tab had
\* navigated after this one when it started.
TabCallbackStarts(t) ==
    /\ handshake[t].order > 0
    /\ HandleCallbackNoVerifier(t) \/ HandleCallbackFetch(t)
    /\ handshake' = [handshake EXCEPT ![t].late = Superseded(t)]
    /\ UNCHANGED <<callback, app, player, upgrade, random>>

\* The token endpoint's PKCE check: the code_verifier of the token request
\* must give the code_challenge the code was issued for.
ProviderAccepts(hs, codeVerifier) == hs.challenge = CodeChallenge(codeVerifier)

\* The token endpoint accepts the exchange; the code cannot be used again.
TabExchangeSucceeds(t, r) ==
    /\ pc[t] = "hc_fetch"
    /\ ProviderAccepts(handshake[t], loc[t].cv)
    /\ HandleCallbackStored(t, r)
    /\ handshake' = [handshake EXCEPT ![t].challenge = CodeChallenge(0)]
    /\ UNCHANGED <<callback, app, player, upgrade, random>>

\* The token endpoint rejects the exchange.
TabExchangeRejected(t, r) ==
    /\ pc[t] = "hc_fetch"
    /\ ~ProviderAccepts(handshake[t], loc[t].cv)
    /\ HandleCallbackRejected(t, r)
    /\ UNCHANGED ui

NextTabs ==
    \/ CallerResumes /\ UNCHANGED ui
    \/ \E t \in Tasks : TabInitiates(t)
    \/ \E t \in Tasks : TabNavigates(t)
    \/ \E t \in Tasks : TabInitiateFails(t)
    \/ \E t \in Tasks : TabCallbackStarts(t)
    \/ \E t \in Tasks, r \in TokenResponses : TabExchangeSucceeds(t, r)
    \/ \E t \in Tasks, r \in TokenResponses : TabExchangeRejected(t, r)

SpecTabs == Init /\ [][NextTabs]_vars

---------------------------------------------------------------------------
(* generateRandomString(length) *)

\* Line 9: the characters a verifier is made of.
POSSIBLE ==
    <<"A", "B", "C", "D", "E", "F", "G", "H", "I", "J", "K", "L", "M",
      "N", "O", "P", "Q", "R", "S", "T", "U", "V", "W", "X", "Y", "Z",
      "a", "b", "c", "d", "e", "f", "g", "h", "i", "j", "k", "l", "m",
      "n", "o", "p", "q", "r", "s", "t", "u", "v", "w", "x", "y", "z",
      "0", "1", "2", "3", "4", "5", "6", "7", "8", "9">>

\* A Uint8Array element.
ByteValues == 0..255

\* Line 11: possible[x % possible.length].
CharOfByte(x) == POSSIBLE[(x % Len(POSSIBLE)) + 1]

\* Line 11: values.reduce((acc, x) => acc + possible[x % possible.length], '').
RECURSIVE ReduceBytes(_)
ReduceBytes(values) ==
    IF Len(values) = 0 THEN <<>>
    ELSE ReduceBytes(SubSeq(values, 1, Len(values) - 1))
         \o <<CharOfByte(values[Len(values)])>>

\* The values crypto.getRandomValues is taken to return: the ends of the
\* byte range and the values around the multiples of the alphabet's length.
ByteSamples == {0, 7, 8, 61, 62, 123, 124, 247, 248, 255}
ByteArrays == UNION {[1..n -> ByteSamples] : n \in 1..MaxVerifierLen}

\* A call of generateRandomString(length) whose random bytes are drawn.
InitRandom ==
    /\ store = EmptyStore
    /\ now = 0
    /\ pc = [t \in Tasks |-> "idle"]
    /\ loc = [t \in Tasks |-> NoLocals]
    /\ sent = {}
    /\ ret = NoOutcome
    /\ callback = CallbackUnmounted
    /\ app = AppUnmounted
    /\ player = PlayerUnmounted
    /\ upgrade = "none"
    /\ handshake = [t \in Tasks |-> NoHandshake]
    /\ random \in {[bytes |-> values, out |-> <<>>] : values \in ByteArrays}

\* generateRandomString returns.
GenerateRandomString ==
    /\ random.out = <<>>
    /\ random' = [random EXCEPT !.out = ReduceBytes(random.bytes)]
    /\ UNCHANGED <<store, now, pc, loc, sent, ret, callback, app, player, upgrade,
                   handshake>>

NextRandom == GenerateRandomString

SpecRandom == InitRandom /\ [][NextRandom]_vars

---------------------------------------------------------------------------
(* Properties *)

SessionCleared == TokenGroup \cap DOMAIN store = {}
TokenGroupUnchanged ==
    \A k \in TokenGroup :
        /\ Has(store', k) = Has(store, k)
        /\ Has(store, k) => store'[k] = store[k]

\* A step that ends or replaces the stored session: logout() (from the UI,
\* from forceReauth, from the 401 handler) or the writes of a token exchange.
SessionReplaced ==
    \/ LogoutCall
    \/ \E t \in Tasks : ForceReauthStart(t)
    \/ \E t \in Tasks : MakeRequestFails(t, 401)
    \/ \E t \in Tasks, r \in TokenResponses :
          \/ HandleCallbackStored(t, r)
          \/ \E n \in 0..3 : HandleCallbackQuota(t, r, n)

\* C1, first half: when handleCallback has just stored the tokens of a
\* response that declares a positive lifetime, isAuthenticated() is true and
\* getAccessToken() returns the access_token of that response.
C1_Issued ==
    (/\ ret.op = "handleCallback" /\ ret.err = ""
     /\ "expires_in" \in DOMAIN ret.resp.data
     /\ ret.resp.data["expires_in"] > 0)
    => /\ IsAuthenticated(store, now).val
       /\ GetAccessToken(store, now).val = ret.resp.data["access_token"]

\* C1, second half: a token getAccessToken() returns keeps being returned
\* over every step that leaves the clock before the stored expiry, unless
\* the step is a logout, a 401 or the writes of a later exchange.
C1_Kept ==
    (/\ GetAccessToken(store, now).val # NULL
     /\ ParseInt(store[K_EXPIRES]) # NaN
     /\ now' < ParseInt(store[K_EXPIRES])
     /\ ~SessionReplaced)
    => GetAccessToken(store', now').val = GetAccessToken(store, now).val

\* C1: round trip.  After initiateAuth() and a handleCallback(code) whose
\* exchange succeeds with a positive lifetime, isAuthenticated() is true and
\* getAccessToken() returns the issued access token at every clock value
\* before the computed expiry, as long as no logout or 401 intervenes.
C1_RoundTrip == [](C1_Issued) /\ [][C1_Kept]_vars

\* A call of getAccessToken() returned the stored token one millisecond
\* before its expiry.
C1_Witness ==
    /\ ret.op = "getAccessToken" /\ ret.val # NULL
    /\ Has(store, K_ACCESS) /\ ret.val = store[K_ACCESS]
    /\ Has(store, K_EXPIRES) /\ now + 1 = ParseInt(store[K_EXPIRES])
    /\ ~Has(store, K_VERIFIER)

\* C2: getAccessToken() returns the stored token only if an access token and
\* an expiry are both stored and now < expiresAt; for every clock value with
\* now >= expiresAt (now = expiresAt included) it returns null, and
\* isAuthenticated() called afterwards is false.  (Stated for an expiry that
\* is a number.)
C2_ExpiryBoundary ==
    [][GetAccessTokenCall =>
        /\ ret'.val # NULL =>
              /\ Has(store, K_ACCESS) /\ Has(store, K_EXPIRES)
              /\ ParseInt(store[K_EXPIRES]) # NaN => now < ParseInt(store[K_EXPIRES])
        /\ (/\ Has(store, K_ACCESS) /\ Has(store, K_EXPIRES)
            /\ ParseInt(store[K_EXPIRES]) # NaN
            /\ now >= ParseInt(store[K_EXPIRES]))
           => /\ ret'.val = NULL
              /\ ~IsAuthenticated(store', now').val]_vars

\* C3: whenever getAccessToken() returns null, none of access token, refresh
\* token, expiry and scopes is stored after the call.
C3_AbsentClears ==
    (ret.op = "getAccessToken" /\ ret.val = NULL) => SessionCleared

\* C4: when a request of makeRequest is answered 401, the error thrown is the
\* 'Authentication expired' one, the session is cleared when it is thrown,
\* the call has ended (no second request is in flight for it), and
\* getAccessToken() returns null.
C4_Unauthorized ==
    (ret.op = "makeRequest" /\ ret.resp.status = 401)
    => /\ ret.err = MSG_AUTH_EXPIRED
       /\ SessionCleared
       /\ pc[ret.task] = "idle"
       /\ GetAccessToken(store, now).val = NULL
       /\ ~IsAuthenticated(store, now).val

\* A 401 was handled while the stored token had not expired.
C4_Witness ==
    /\ ret.op = "makeRequest" /\ ret.resp.status = 401
    /\ ret.wasAuth
    /\ GetAccessToken(store, now).val = NULL

\* C5: after logout(), from any state, none of the four token-group fields
\* is stored, getAccessToken() returns null and isAuthenticated() is false.
C5_Logout ==
    ret.op = "logout"
    => /\ SessionCleared
       /\ GetAccessToken(store, now).val = NULL
       /\ ~IsAuthenticated(store, now).val

\* logout() ran on an authenticated session.
C5_Witness == ret.op = "logout" /\ ret.wasAuth /\ SessionCleared

\* C6: handleCallback(code) called while no verifier is stored throws 'No
\* code verifier found', sends no token request and leaves the store
\* unchanged; isAuthenticated() has the same value before and after.
C6_MissingVerifier ==
    [][~Has(store, K_VERIFIER) =>
        /\ \A t \in Tasks : pc[t] = "idle" => pc'[t] # "hc_fetch"
        /\ (ret'.op = "handleCallback" /\ pc' = pc) =>
              /\ ret'.err = MSG_NO_VERIFIER
              /\ store' = store
              /\ sent' = sent
              /\ IsAuthenticated(store', now').val = IsAuthenticated(store, now).val]_vars

\* handleCallback was called a second time, after the first call had consumed
\* the verifier and stored a session: it threw, the session is still there.
C6_Witness ==
    /\ ret.op = "handleCallback" /\ ret.err = MSG_NO_VERIFIER
    /\ ~Has(store, K_VERIFIER)
    /\ ret.wasAuth /\ IsAuthenticated(store, now).val

\* C7: when handleCallback has ended, whether it succeeded or failed, no
\* verifier is stored.
C7_VerifierCleared == ret.op = "handleCallback" => ~Has(store, K_VERIFIER)

\* C8: for each stored verifier at most one handleCallback call sends a token
\* request carrying it.
C8_SingleUse ==
    [][\A t \in Tasks :
          (pc[t] = "idle" /\ pc'[t] = "hc_fetch") => loc'[t].cv \notin sent]_vars

\* C9: on every non-success token response handleCallback throws the
\* provider's error_description when there is one, 'Token exchange failed'
\* otherwise, and writes none of the four token-group fields.
C9_ExchangeFailed ==
    [][\A t \in Tasks :
          (/\ pc[t] = "hc_fetch" /\ pc'[t] = "idle"
           /\ ret'.resp.status # 0 /\ ~ResponseOk(ret'.resp))
          => /\ ret'.err = IF "error_description" \in DOMAIN ret'.resp.data
                           THEN ret'.resp.data["error_description"]
                           ELSE MSG_EXCHANGE_FAILED
             /\ TokenGroupUnchanged]_vars

\* C10: when handleCallback has succeeded, the store holds the values of the
\* one response: its access_token, its refresh_token, the clock plus
\* expires_in * 1000 as expiry, its scope or, when it omits scope, all the
\* requested scopes; the verifier is not stored.
C10_StoredGroup ==
    (ret.op = "handleCallback" /\ ret.err = "")
    => /\ TokenGroup \subseteq DOMAIN store
       /\ store[K_ACCESS] = ret.resp.data["access_token"]
       /\ store[K_REFRESH] = ret.resp.data["refresh_token"]
       /\ "expires_in" \in DOMAIN ret.resp.data =>
             ParseInt(store[K_EXPIRES]) = now + ret.resp.data["expires_in"] * MS_PER_SECOND
       /\ store[K_SCOPES] = IF "scope" \in DOMAIN ret.resp.data
                            THEN ret.resp.data["scope"] ELSE JoinSpace(SCOPES)
       /\ ~Has(store, K_VERIFIER)

\* C11: in every reachable state an access token is stored iff an expiry is
\* stored, and getAccessToken() reports the token as present iff that expiry
\* is in the future.
C11_TokenIffExpiry ==
    /\ Has(store, K_ACCESS) <=> Has(store, K_EXPIRES)
    /\ GetAccessToken(store, now).val # NULL
         <=> /\ Has(store, K_ACCESS) /\ Has(store, K_EXPIRES)
             /\ ParseInt(store[K_EXPIRES]) # NaN
             /\ now < ParseInt(store[K_EXPIRES])

\* C15: when forceReauth() navigates to the identity provider, none of the
\* four token-group fields is stored, the verifier stored is the one this
\* call generated, and isAuthenticated() is false.
C15_ForceReauth ==
    [][\A t \in Tasks :
          (pc[t] = "reauth_digest" /\ pc'[t] = "idle" /\ ret'.err = "")
          => /\ TokenGroup \cap DOMAIN store' = {}
             /\ Has(store', K_VERIFIER) /\ store'[K_VERIFIER] = loc[t].cv
             /\ ~IsAuthenticated(store', now').val]_vars

\* The state of the store in which getAccessToken() returns a token.
TokenUsable ==
    /\ Has(store, K_ACCESS) /\ Has(store, K_EXPIRES)
    /\ ~JsGt(now, ParseInt(store[K_EXPIRES]))

\* C16: makeRequest sends a request only with the token getAccessToken() just
\* returned; when no token is stored, or the stored one has expired, it
\* throws 'No access token available' and sends nothing.
C16_NoToken ==
    [][\A t \in Tasks :
          /\ (pc[t] = "idle" /\ pc'[t] = "req_wait")
             => TokenUsable /\ loc'[t].token = store[K_ACCESS]
          /\ (Idle /\ pc[t] = "idle" /\ ret'.op = "makeRequest" /\ ret'.task = t)
             => /\ ~TokenUsable
                /\ ret'.err = MSG_NO_TOKEN
                /\ pc'[t] = "idle"
                /\ ret'.resp.status = 0]_vars

\* makeRequest threw 'No access token available' at the end of the observed
\* time, while a request sent earlier with the session's token is in flight.
C16_Witness ==
    /\ ret.op = "makeRequest" /\ ret.err = MSG_NO_TOKEN
    /\ ~ret.wasAuth
    /\ pc[ret.task] = "idle"
    /\ \E t \in Tasks : pc[t] = "req_wait" /\ loc[t].token # NULL
    /\ SessionCleared
    /\ now = MaxNow

\* C17: a 403 and a 429 answer to a request surface as errors that differ
\* from each other and from the 401 error, and the step that handles any
\* status other than 401 leaves the whole store (token group and verifier)
\* as it was.
C17_OnlyUnauthorizedMutates ==
    [][\A t \in Tasks :
          (pc[t] = "req_wait" /\ pc'[t] = "idle")
          => /\ ret'.resp.status # 401 => store' = store
             /\ ret'.resp.status = 429 => ret'.err = MSG_RATE_LIMIT
             /\ ret'.resp.status = 403 =>
                   /\ ret'.err \notin {"", MSG_RATE_LIMIT, MSG_AUTH_EXPIRED,
                                       MSG_NO_TOKEN, MSG_API_ERROR}
                   /\ ret'.err = ForbiddenError(ret'.resp.data["message"])
             /\ MSG_RATE_LIMIT # MSG_AUTH_EXPIRED]_vars

\* A 403 of an app in development mode was handled on a stored session, which
\* is still there.
C17_Witness ==
    /\ ret.op = "makeRequest" /\ ret.resp.status = 403
    /\ ret.err = MSG_DEV_MODE
    /\ ret.wasAuth /\ IsAuthenticated(store, now).val
    /\ TokenGroup \subseteq DOMAIN store

\* The component is in the failure state its URL parameters alone lead to.
FailedOnParameters ==
    /\ callback.status = "error"
    /\ (Len(callback.errorParam) = 1 \/ Len(callback.code) = 0)

\* C18: when the URL carries an error parameter (a code may be there too) or
\* carries neither, the effect ends in the error state, showing the
\* provider's error as it is or 'No authorization code received'; it does
\* not call handleCallback, sends no token request, schedules no redirect and
\* leaves the store, a pending verifier included, as it was; the error state
\* is never left.
C18_CallbackParameters ==
    [][/\ (callback.status = "unmounted" /\ callback'.status # "unmounted"
           /\ (Len(callback'.errorParam) = 1 \/ Len(callback'.code) = 0))
          => /\ callback'.status = "error"
             /\ callback'.error = IF Len(callback'.errorParam) = 1
                                  THEN callback'.errorParam[1] ELSE MSG_NO_CODE
             /\ callback'.redirect = "none"
             /\ store' = store /\ pc' = pc /\ sent' = sent /\ ret' = ret
       /\ FailedOnParameters
          => /\ callback' = callback
             /\ store' = store /\ pc' = pc /\ sent' = sent
             /\ ret'.op # "handleCallback"]_vars

\* The URL carried an error and a code while a verifier was pending: the
\* error is shown, the verifier is still stored, no request was sent.
C18_Witness ==
    /\ callback.status = "error" /\ callback.error = "access_denied"
    /\ Len(callback.code) = 1
    /\ Has(store, K_VERIFIER)
    /\ sent = {} /\ pc[PAGE_TASK] = "idle"
    /\ callback.redirect = "none"

\* C19: with a code and no error, the status leaves 'loading' for 'success'
\* only when handleCallback has succeeded and the token group is stored, and
\* only that step schedules the redirect, 2000 ms later; the redirect is not
\* done before that time; when handleCallback fails the status becomes
\* 'error' with the message thrown and no redirect is scheduled; 'success'
\* and 'error' are never left.
C19_CallbackStatus ==
    [][/\ (callback.status # "success" /\ callback'.status = "success")
          => /\ callback.status = "loading"
             /\ ret.op = "handleCallback" /\ ret.err = ""
             /\ TokenGroup \subseteq DOMAIN store
             /\ ~Has(store, K_VERIFIER)
             /\ callback'.redirect = "scheduled"
             /\ callback'.redirectAt = now + REDIRECT_DELAY_MS
       /\ (callback.redirect = "none" /\ callback'.redirect # "none")
          => callback'.status = "success" /\ callback.status = "loading"
       /\ (callback.redirect # "fired" /\ callback'.redirect = "fired")
          => /\ callback.status = "success"
             /\ now >= callback.redirectAt
       /\ (callback.status = "loading" /\ ret.op = "handleCallback"
           /\ ret.err # "" /\ ret' # ret)
          => /\ callback'.status = "error"
             /\ callback'.error = ret.err
             /\ callback'.redirect = "none"
       /\ callback.status \in {"success", "error"}
          => callback'.status = callback.status
       /\ callback.status = "error" => callback'.redirect = "none"]_vars

\* The redirect was done, 2000 ms after a handshake that succeeded.
C19_Witness ==
    /\ callback.status = "success" /\ callback.redirect = "fired"
    /\ now = callback.redirectAt
    /\ Len(callback.code) = 1 /\ Len(callback.errorParam) = 0
    /\ TokenGroup \subseteq DOMAIN store

\* handleCallback failed on the provider's answer and the component shows the
\* message it threw.
C19_WitnessFailure ==
    /\ callback.status = "error"
    /\ callback.error = "Invalid authorization code"
    /\ callback.redirect = "none"

\* The scopes the stored scope string grants: its space-separated parts.
GrantedSet(s) ==
    IF Has(s, K_SCOPES)
    THEN {s[K_SCOPES][i] : i \in DOMAIN s[K_SCOPES]} \ {SP}
    ELSE {}

StreamingSet == {STREAMING_SCOPES[i] : i \in DOMAIN STREAMING_SCOPES}

\* C12: hasRequiredScopes(R) is true exactly when every element of R is one
\* of the space-separated parts of the stored scope string, and is false for
\* every non-empty R when no scope string is stored.
C12_ExactMembership ==
    ret.op = "hasRequiredScopes" =>
        /\ (ret.val = "true") <=>
               (\A i \in DOMAIN ret.arg : ret.arg[i] \in GrantedSet(store))
        /\ (~Has(store, K_SCOPES) /\ ret.arg # <<>>) => ret.val = "false"

\* A narrow grant is stored and a set with one granted and one ungranted
\* scope was asked for: the answer is false.
C12_Witness ==
    /\ ret.op = "hasRequiredScopes"
    /\ ret.arg = <<"user-read-private", "streaming">>
    /\ "user-read-private" \in GrantedSet(store)
    /\ "streaming" \notin GrantedSet(store)
    /\ ret.val = "false"

\* After a logout nothing is stored and a non-empty set was asked for.
C12_WitnessNoScopes ==
    /\ ret.op = "hasRequiredScopes"
    /\ ret.arg = <<"user-read-private">>
    /\ SessionCleared
    /\ sent # {}
    /\ ret.val = "false"

\* C13: needsReauth() is true exactly when isAuthenticated() is true and the
\* granted scopes lack a playback scope; it is false when nothing is stored
\* and when the session is not authenticated.
C13_NeedsUpgrade ==
    ret.op = "needsReauth" =>
        /\ (ret.val = "true") <=>
               (ret.wasAuth /\ ~(StreamingSet \subseteq GrantedSet(store)))
        /\ ~ret.wasAuth => ret.val = "false"
        /\ SessionCleared => ret.val = "false"

\* needsReauth() answered false although the stored scopes lack the playback
\* scopes: the session had expired, and the call cleared it.
C13_Witness ==
    /\ ret.op = "needsReauth"
    /\ ret.val = "false"
    /\ ~ret.wasAuth
    /\ SessionCleared
    /\ sent # {}
    /\ now > 0

\* needsReauth() answered true for an authenticated session with narrow scopes.
C13_WitnessTrue ==
    /\ ret.op = "needsReauth"
    /\ ret.val = "true"
    /\ ret.wasAuth
    /\ "user-read-private" \in GrantedSet(store)

\* C14 as stated: needsReauth() is true while authenticated without the
\* streaming scope, and false once the Update Permissions click (forceReauth)
\* and a handshake have left a session whose scopes contain streaming.
C14_StreamingAlone ==
    ret.op = "needsReauth" =>
        /\ (ret.wasAuth /\ "streaming" \notin GrantedSet(store)) => ret.val = "true"
        /\ (upgrade = "done" /\ ret.wasAuth /\ "streaming" \in GrantedSet(store))
               => ret.val = "false"

\* C14, amended: needsReauth() is true while authenticated with a granted set
\* that lacks one of the three playback scopes, and false once the Update
\* Permissions click (forceReauth) and a handshake have left a session whose
\* scopes contain all three.
C14_UpgradeCycle ==
    ret.op = "needsReauth" =>
        /\ (ret.wasAuth /\ ~(StreamingSet \subseteq GrantedSet(store)))
               => ret.val = "true"
        /\ (upgrade = "done" /\ ret.wasAuth /\ StreamingSet \subseteq GrantedSet(store))
               => ret.val = "false"

\* After the click and a handshake that stored all playback scopes,
\* needsReauth() has answered false.
C14_Witness ==
    /\ ret.op = "needsReauth"
    /\ upgrade = "done"
    /\ ret.wasAuth
    /\ StreamingSet \subseteq GrantedSet(store)
    /\ ret.val = "false"

\* After the click, the session holds streaming without the playback-state
\* scopes and needsReauth() has answered true.
C14_WitnessStreamOnly ==
    /\ ret.op = "needsReauth"
    /\ upgrade = "done"
    /\ ret.wasAuth
    /\ "streaming" \in GrantedSet(store)
    /\ ret.val = "true"

\* The effect of the component runs.
PlayerMounts == ~player.mounted /\ player'.mounted
\* The SDK calls the registered initializePlayer.
DeferredInit == ~player.sdk /\ player'.sdk /\ player.onReady

\* C20: a step constructs the player only from a state where getAccessToken()
\* returns a token and the three playback scopes are granted; from a state
\* where needsReauth() is true no step constructs it, and the effect and the
\* deferred initializePlayer leave a mounted component in the upgrade state.
C20_PlayerConstruction ==
    [][/\ (~player.constructed /\ player'.constructed) =>
              /\ GetAccessToken(store, now).val # NULL
              /\ StreamingSet \subseteq GrantedSet(store)
       /\ NeedsReauth(store, now).val =>
              /\ player'.constructed => player.constructed
              /\ (PlayerMounts \/ DeferredInit) =>
                     (player'.mounted => player'.needsReauth)]_vars

\* The effect registered initializePlayer; when the SDK called it the session
\* lacked the playback scopes: no player, the upgrade state is shown.
C20_Witness ==
    /\ player.mounted /\ player.onReady /\ player.sdk
    /\ player.needsReauth
    /\ ~player.constructed

\* The deferred initializePlayer constructed the player.
C20_WitnessConstructed ==
    /\ player.mounted /\ player.onReady /\ player.sdk
    /\ player.constructed
    /\ ~player.needsReauth

\* The writes of one token response are all in the store.
GroupOf(data) ==
    /\ TokenGroup \subseteq DOMAIN store'
    /\ \A i \in 1..4 :
          store'[TokenWrites(now, data)[i][1]] = TokenWrites(now, data)[i][2]

\* C23: the step that ends a handleCallback call either leaves the four
\* token-group fields as they were or leaves all four with the values of its
\* response; an access token is never stored without an expiry.
C23_GroupTransaction ==
    [](Has(store, K_ACCESS) => Has(store, K_EXPIRES))
    /\ [][\A t \in Tasks :
             (pc[t] = "hc_fetch" /\ pc'[t] = "idle")
             => (TokenGroupUnchanged \/ GroupOf(ret'.resp.data))]_vars

\* C25: isAuthenticated() turns from false to true only in the step of a
\* handleCallback call that succeeds, and every step that changes a
\* token-group field to a new value is such a step.
C25_OnlyHandshakeAuthenticates ==
    [][/\ (~IsAuthenticated(store, now).val /\ IsAuthenticated(store', now').val)
          => (ret'.op = "handleCallback" /\ ret'.err = "")
       /\ (\E k \in TokenGroup : Has(store', k) /\ (Has(store, k) => store'[k] # store[k]))
          => (ret'.op = "handleCallback" /\ ret'.err = "")]_vars

VerifierUnchanged ==
    /\ Has(store', K_VERIFIER) = Has(store, K_VERIFIER)
    /\ Has(store, K_VERIFIER) => store'[K_VERIFIER] = store[K_VERIFIER]

\* C26: the stored verifier is changed only by the step of initiateAuth()
\* that stores the one it generated and by the step of a handleCallback
\* call that succeeds, which removes it; logout(), getAccessToken(),
\* isAuthenticated(), the 401 handler and the clock leave it as it is.
C26_VerifierInert ==
    [][/\ ~VerifierUnchanged =>
             \E t \in Tasks :
                \/ /\ pc[t] \in {"init_digest", "reauth_digest"} /\ pc'[t] = "idle"
                   /\ Has(store', K_VERIFIER) /\ store'[K_VERIFIER] = loc[t].cv
                \/ /\ pc[t] = "hc_fetch" /\ pc'[t] = "idle"
                   /\ ret'.op = "handleCallback" /\ ret'.err = ""
                   /\ ~Has(store', K_VERIFIER)
       /\ (ret'.op \in {"logout", "getAccessToken", "isAuthenticated", "makeRequest"}
           \/ now' # now) => VerifierUnchanged]_vars

\* logout() ran on an authenticated session while a verifier was pending at
\* the end of the observed time: the verifier is still stored.
C26_Witness ==
    /\ ret.op = "logout" /\ ret.wasAuth
    /\ SessionCleared
    /\ Has(store, K_VERIFIER)
    /\ now = MaxNow

\* C27: the 401 answer to a request clears the session only if the stored
\* access token is the one the request carried.
C27_StaleUnauthorized ==
    [][\A t \in Tasks :
          (/\ pc[t] = "req_wait" /\ pc'[t] = "idle"
           /\ ret'.resp.status = 401
           /\ Has(store, K_ACCESS) /\ store[K_ACCESS] # loc[t].token)
          => TokenGroupUnchanged]_vars

\* The clock values looked at: up to the latest expiry a response can give,
\* and one past it.
ClockHorizon == MaxNow + MaxLifetime * MS_PER_SECOND + 1

\* C28: for every stored session there is a clock value at which
\* getAccessToken() returns null, and a value getAccessToken() returns is the
\* access_token of a success response.
C28_NoTokenForever ==
    /\ (Has(store, K_ACCESS) /\ Has(store, K_EXPIRES))
       => \E t \in 0..ClockHorizon : GetAccessToken(store, t).val = NULL
    /\ GetAccessToken(store, now).val # NULL
       => \E r \in TokenResponses :
             /\ r.json /\ ResponseOk(r)
             /\ GetAccessToken(store, now).val = Field(r.data, "access_token")

Alphabet == {POSSIBLE[i] : i \in DOMAIN POSSIBLE}
\* The byte values that give the character c.
Preimages(c) == {x \in ByteValues : CharOfByte(x) = c}

\* C30: generateRandomString(L) returns L characters of the alphabet, and
\* the character at each position is the image of as many byte values as
\* every other character of the alphabet.
C30_Uniform ==
    random.out # <<>> =>
        /\ Len(random.out) = Len(random.bytes)
        /\ \A i \in DOMAIN random.out :
              /\ random.out[i] \in Alphabet
              /\ \A c \in Alphabet :
                    Cardinality(Preimages(c)) = Cardinality(Preimages(random.out[i]))

\* Tab t's handleCallback started after another tab had overwritten the
\* verifier of t's authorization request.
StartedLate(t) == IF pc[t] = "hc_fetch" THEN handshake[t].late ELSE Superseded(t)

C22_WitnessMissing ==
    \E t \in Tasks :
        /\ ret.op = "handleCallback" /\ ret.task = t
        /\ ret.err = MSG_NO_VERIFIER
        /\ \E u \in Tasks \ {t} : handshake[u].order > handshake[t].order
        /\ IsAuthenticated(store, now).val

\* The verifiers that are stored, held by a call, sent in a token request,
\* or whose challenge the provider holds.
KnownVerifiers == HeldVerifiers \cup sent

\* C24: initiateAuth() generates a verifier that is neither stored nor used
\* before; when it navigates, the verifier stored is that one, and the
\* code_challenge of the authorization request is the transform of the
\* stored verifier.
C24_FreshVerifier ==
    [][\A t \in Tasks :
          /\ (pc[t] = "idle" /\ pc'[t] = "init_digest")
             => loc'[t].cv \notin KnownVerifiers
          /\ (pc[t] = "init_digest" /\ pc'[t] = "idle" /\ ret'.err = "")
             => /\ Has(store', K_VERIFIER)
                /\ store'[K_VERIFIER] = loc[t].cv
                /\ handshake'[t].challenge = CodeChallenge(store'[K_VERIFIER])
                /\ handshake'[t].order > handshake[t].order]_vars

\* A tab navigated for the second time, over the verifier another tab had
\* stored in between.
C24_Witness ==
    \E t \in Tasks :
        /\ ret.op = "initiateAuth" /\ ret.task = t /\ ret.err = ""
        /\ handshake[t].order = MaxHandshakes
        /\ \E u \in Tasks \ {t} : handshake[u].order = MaxHandshakes - 1
        /\ Has(store, K_VERIFIER)
        /\ handshake[t].challenge = CodeChallenge(store[K_VERIFIER])

\* C21: the authentication_error listener leaves the session as it is, and
\* leaves the component in the upgrade state when the stored scopes lack a
\* playback scope.
C21_AuthenticationError ==
    [][AuthenticationError =>
          /\ store' = store
          /\ ~(StreamingSet \subseteq GrantedSet(store)) => player'.needsReauth]_vars

\* The stored token has not expired: an expiry is stored and now is before it.
TokenLive ==
    /\ Has(store, K_ACCESS) /\ Has(store, K_EXPIRES)
    /\ ParseInt(store[K_EXPIRES]) # NaN
    /\ now < ParseInt(store[K_EXPIRES])

\* C29: the token handed to the player's callback, and the token a play
\* request carries, is the stored token and has not expired; when
\* getAccessToken() returns null the callback is not called and no play
\* request is sent.
C29_LiveTokenOnly ==
    [][/\ (GetOAuthToken /\ ret'.val # NULL)
          => (TokenLive /\ ret'.val = store[K_ACCESS])
       /\ (pc[PAGE_TASK] = "idle" /\ pc'[PAGE_TASK] = "play_wait")
          => (TokenLive /\ loc'[PAGE_TASK].token = store[K_ACCESS])
       /\ (GetAccessToken(store, now).val = NULL)
          => /\ GetOAuthToken => ret'.val = NULL
             /\ pc[PAGE_TASK] = "idle" => pc'[PAGE_TASK] # "play_wait"]_vars

====
